---- MODULE Spec2Model ----
(***************************************************************************)
(* Model of the Streamlit sales dashboard (src/ui.py, src/dashboard.py).   *)
(*                                                                         *)
(* The page is a script that the framework re-runs from the top on every   *)
(* user interaction.  A run reads the widget state (uploaded file, the     *)
(* three sidebar selections, the expense-year multiselect), loads the      *)
(* workbook through the st.cache_data memo, filters it, and computes the   *)
(* KPI bundle and the business-unit comparison.  What survives a run is    *)
(* the widget state and the memo; every script variable is rebuilt.        *)
(*                                                                         *)
(* Numbers: cell amounts and the three totals are integers.  A margin is   *)
(* either the integer literal 0 of the guarded branch or the quotient of a *)
(* true division; quotients are kept exact (reduced fractions), so float   *)
(* rounding is abstracted away.                                            *)
(***************************************************************************)
EXTENDS Integers, Sequences, FiniteSets, TLC

\* ---------------------------------------------------------------- bounds
\* Longest table the KPI harness draws.
MaxRows == 3
\* Most distinct workbooks one session loads (entries of the load_data memo).
MaxCached == 2
\* The sparkline placeholder of plot_metric draws from 0..MaxSpark.
MaxSpark == 1

\* ----------------------------------------------------------------- state
VARIABLES
    script,                  \* which page is served: "ui" or "dashboard"
    uploaded_excel_file,     \* the file_uploader's value: a workbook or None
    memo,                    \* entries of the st.cache_data memo of load_data
    business_units,          \* options of the Business Unit selectbox ({}: not shown)
    selected_business_unit,
    years,                   \* options of the Year selectbox ({}: not shown)
    selected_year,
    selected_account_type,
    df,                      \* script variables of the last run (None: unbound)
    filtered_df,
    kpis,
    bu_comparison_data,      \* the comparison rows (<< >> until the loop has run)
    years_available,         \* options of the expense-year multiselect
    selected_years_expense,
    sparkline,               \* the random placeholder series drawn by plot_metric
    error,                   \* the exception that ended the last run, or "none"
    page,                    \* the kinds of element the last run rendered
    call,                    \* KPI harness: the function applied and its arguments
    ret                      \* KPI harness: the value it returned

vars == <<script, uploaded_excel_file, memo, business_units,
          selected_business_unit, years, selected_year, selected_account_type,
          df, filtered_df, kpis, bu_comparison_data, years_available,
          selected_years_expense, sparkline, error, page, call, ret>>

session_vars == <<script, uploaded_excel_file, memo, business_units,
                  selected_business_unit, years, selected_year,
                  selected_account_type, df, filtered_df, kpis,
                  bu_comparison_data, years_available, selected_years_expense,
                  sparkline, error, page>>

\* ------------------------------------------------------------ data model
all_months == <<"Jan", "Feb", "Mar", "Apr", "May", "Jun",
                "Jul", "Aug", "Sep", "Oct", "Nov", "Dec">>

Range(s) == {s[i] : i \in 1..Len(s)}

MonthSet == Range(all_months)

\* The columns the script expects, in workbook order.
ExpectedHeader == <<"business_unit", "Year", "Account">> \o all_months

\* Month amounts of one row: Jan, Feb and Dec given, the other months 0.
Amounts(jan, feb, dec) ==
    [m \in MonthSet |-> CASE m = "Jan" -> jan
                          [] m = "Feb" -> feb
                          [] m = "Dec" -> dec
                          [] OTHER -> 0]

\* Spreadsheet cells are typed: text or number.
Text(x) == [text |-> x]
Number(x) == [number |-> x]

CellValue(c) == IF "text" \in DOMAIN c THEN c.text ELSE c.number

\* One spreadsheet line under ExpectedHeader.
Line(bu, yr, acc, a) ==
    <<Text(bu), Number(yr), Text(acc)>>
        \o [i \in 1..Len(all_months) |-> Number(a[all_months[i]])]

\* A workbook: the header row and the data lines under it.
Workbook(lines) == [header |-> ExpectedHeader, lines |-> lines]

\* The positions of a sequence that are kept when position k is removed.
Without(s, k) == [i \in 1..(Len(s) - 1) |-> IF i < k THEN s[i] ELSE s[i + 1]]

IndexOf(s, x) == CHOOSE i \in 1..Len(s) : s[i] = x

\* The same workbook saved without column col.
DropColumn(wb, col) ==
    LET k == IndexOf(wb.header, col)
    IN  [header |-> Without(wb.header, k),
         lines  |-> [i \in 1..Len(wb.lines) |-> Without(wb.lines[i], k)]]

\* pd.read_excel: the first row names the columns, every further row becomes
\* a record keyed by column name.
read_excel(wb) ==
    [columns |-> Range(wb.header),
     rows    |-> [i \in 1..Len(wb.lines) |->
                    [c \in Range(wb.header) |->
                        CellValue(wb.lines[i][IndexOf(wb.header, c)])]]]

\* df[mask]: the rows satisfying Keep, in their original order.
Rows(t, Keep(_)) == [columns |-> t.columns, rows |-> SelectSeq(t.rows, Keep)]

\* df[col].unique(): the distinct values in order of first appearance.
RECURSIVE UniqueSeq(_, _)
UniqueSeq(vals, seen) ==
    IF vals = << >> THEN << >>
    ELSE IF Head(vals) \in seen THEN UniqueSeq(Tail(vals), seen)
    ELSE <<Head(vals)>> \o UniqueSeq(Tail(vals), seen \cup {Head(vals)})

unique(t, col) == UniqueSeq([i \in 1..Len(t.rows) |-> t.rows[i][col]], {})

\* One row's cells over the month columns, added up.
RECURSIVE RowSum(_, _)
RowSum(r, months) ==
    IF months = << >> THEN 0 ELSE r[Head(months)] + RowSum(r, Tail(months))

\* frame[all_months].sum().sum(): every month cell of every row; 0 when the
\* frame has no rows.
RECURSIVE SumRows(_)
SumRows(rows) ==
    IF rows = << >> THEN 0
    ELSE RowSum(Head(rows), all_months) + SumRows(Tail(rows))

abs(x) == IF x < 0 THEN -x ELSE x

\* ------------------------------------------------------- margin arithmetic
RECURSIVE Gcd(_, _)
Gcd(a, b) == IF b = 0 THEN a ELSE Gcd(b, a % b)

\* The integer literal n.
PyInt(n) == [num |-> n, den |-> 1, kind |-> "int"]

\* The float n/d in lowest terms; a zero divisor gives the non-finite
\* value (den = 0) that numpy's division produces.
PyFloat(n, d) ==
    IF d = 0 THEN [num |-> IF n > 0 THEN 1 ELSE IF n < 0 THEN -1 ELSE 0,
                   den |-> 0, kind |-> "float"]
    ELSE LET g == Gcd(abs(n), abs(d))
             s == IF d < 0 THEN -1 ELSE 1
         IN  [num |-> (s * n) \div g, den |-> (s * d) \div g, kind |-> "float"]

\* Python's == on numbers: 0 == 0.0.
PyEq(x, y) == x.num = y.num /\ x.den = y.den

\* profit / total_sales * 100 without the guard.
margin_unguarded(profit, total_sales) == PyFloat(profit * 100, total_sales)

\* (profit / total_sales * 100) if total_sales != 0 else 0
margin(profit, total_sales) ==
    IF total_sales # 0 THEN PyFloat(profit * 100, total_sales) ELSE PyInt(0)

\* ------------------------------------------------------------ KPI helpers
\* Sums only the first matching row.
calculate_total_first_row(frame, account_name) ==
    LET account_df == Rows(frame, LAMBDA r : r["Account"] = account_name)
    IN  IF account_df.rows = << >> THEN 0
        ELSE RowSum(account_df.rows[1], all_months)

calculate_total_for_account(frame, account_name) ==
    LET account_df == Rows(frame, LAMBDA r : r["Account"] = account_name)
    IN  IF account_df.rows = << >> THEN 0
        ELSE SumRows(account_df.rows)

\* abs() forgotten on the cost of goods sold.
total_cogs_signed(frame) == calculate_total_for_account(frame, "Cost of Goods Sold")

total_cogs_of(frame) == abs(calculate_total_for_account(frame, "Cost of Goods Sold"))

total_expenses_of(frame) ==
    LET expense_rows ==
            Rows(frame, LAMBDA r : r["Account"] \notin {"Sales", "Cost of Goods Sold"})
    IN  abs(SumRows(expense_rows.rows))

\* Expenses added to the gross profit instead of subtracted.
kpi_bundle_signslip(total_sales, total_cogs, total_expenses) ==
    LET gross_profit == total_sales - total_cogs
        net_profit   == gross_profit + total_expenses
    IN  [total_sales    |-> total_sales,
         total_cogs     |-> total_cogs,
         total_expenses |-> total_expenses,
         gross_profit   |-> gross_profit,
         net_profit     |-> net_profit,
         gross_margin   |-> margin(gross_profit, total_sales),
         net_margin     |-> margin(net_profit, total_sales)]

kpi_bundle(total_sales, total_cogs, total_expenses) ==
    LET gross_profit == total_sales - total_cogs
        net_profit   == gross_profit - total_expenses
    IN  [total_sales    |-> total_sales,
         total_cogs     |-> total_cogs,
         total_expenses |-> total_expenses,
         gross_profit   |-> gross_profit,
         net_profit     |-> net_profit,
         gross_margin   |-> margin(gross_profit, total_sales),
         net_margin     |-> margin(net_profit, total_sales)]

calculate_kpis(frame) ==
    kpi_bundle(calculate_total_for_account(frame, "Sales"),
               total_cogs_of(frame),
               total_expenses_of(frame))

\* calculate_kpis raises KeyError when the Account column or a month column
\* is absent: line 58 needs Account, line 71 needs every month.
calculate_kpis_raises(frame) ==
    "Account" \notin frame.columns \/ ~(MonthSet \subseteq frame.columns)

\* ------------------------------------------------------ sidebar and filter
None == [none |-> TRUE]

account_types == {"All", "Sales", "Expenses"}

expense_accounts ==
    {"Payroll Expense", "Marketing Expense", "R&D Expense", "Consulting Expense"}

\* The year selectbox offers 'All' next to the integer years.
AllYears == [all |-> TRUE]
YearOption(y) == [year |-> y]

\* ['All'] + sorted(df['business_unit'].unique().tolist()); the order of the
\* options only affects their display, so the options are kept as a set.
business_unit_options(frame) == {"All"} \cup Range(unique(frame, "business_unit"))

year_options(frame) ==
    {AllYears} \cup {YearOption(y) : y \in Range(unique(frame, "Year"))}

\* st.sidebar.selectbox: a widget shown in the previous run with the same
\* options returns the value held in the session; a new widget returns its
\* first option.
selectbox(options, first, shown, value) ==
    IF shown = options /\ value \in options THEN value ELSE first

\* st.multiselect(..., default=years_available, key="expense_years")
multiselect(options, shown, value) ==
    IF shown = options /\ value \subseteq options THEN value ELSE options

\* frame[frame['business_unit'] == unit]
mask_business_unit(frame, unit) ==
    Rows(frame, LAMBDA r : r["business_unit"] = unit)

\* A year mask that keeps the first matching row only.
mask_year_first(frame, year) ==
    LET hits == SelectSeq(frame.rows, LAMBDA r : r["Year"] = year)
    IN  [columns |-> frame.columns,
         rows    |-> IF hits = << >> THEN << >> ELSE <<Head(hits)>>]

\* frame[frame['Year'] == year]
mask_year(frame, year) ==
    Rows(frame, LAMBDA r : r["Year"] = year)

\* filtered_df = df.copy(), then one boolean mask per selection other than
\* 'All'.
apply_filters(frame, unit, year_opt) ==
    LET by_unit == IF unit # "All"
                   THEN mask_business_unit(frame, unit)
                   ELSE frame
    IN  IF year_opt # AllYears
        THEN mask_year(by_unit, year_opt.year)
        ELSE by_unit

\* The name df is rebound to the filtered frame.
filter_step_rebind(frame, unit, year_opt) ==
    [df          |-> apply_filters(frame, unit, year_opt),
     filtered_df |-> apply_filters(frame, unit, year_opt)]

\* What lines 45-49 leave in the script's namespace: df.copy() and the
\* masks build new frames, df itself is not written.
filter_step(frame, unit, year_opt) ==
    [df          |-> frame,
     filtered_df |-> apply_filters(frame, unit, year_opt)]

\* ------------------------------------------------- business-unit comparison
\* Every unit's KPIs taken over the whole filtered frame.
bu_slice_whole(filtered, bu) == filtered

\* bu_data = filtered_df[filtered_df['business_unit'] == bu]
bu_slice(filtered, bu) ==
    Rows(filtered, LAMBDA r : r["business_unit"] = bu)

comparison_row(bu, bu_kpis) ==
    ("Business Unit" :> bu) @@ ("Revenue" :> bu_kpis.total_sales)
    @@ ("Expenses" :> bu_kpis.total_expenses)
    @@ ("Net Profit" :> bu_kpis.net_profit)
    @@ ("Net Margin (%)" :> bu_kpis.net_margin)

\* The loop of lines 405-415, appending to the list given as start.
comparison_loop(start, filtered) ==
    LET units == unique(filtered, "business_unit")
    IN  start \o [i \in 1..Len(units) |->
                    comparison_row(units[i],
                                   calculate_kpis(bu_slice(filtered, units[i])))]

\* ---------------------------------------------------------- load_data memo
\* A hit on any entry, whatever file it was stored for.
load_data_any_entry(uploaded_file, entries) ==
    IF entries # {} THEN (CHOOSE e \in entries : TRUE).value
    ELSE read_excel(uploaded_file)

\* @st.cache_data: a hit returns (a copy of) the frame stored for this file,
\* a miss parses the workbook.
load_data(uploaded_file, entries) ==
    IF \E e \in entries : e.key = uploaded_file
    THEN (CHOOSE e \in entries : e.key = uploaded_file).value
    ELSE read_excel(uploaded_file)

\* The memo after the call: a miss stores the frame it returned.
memo_after(uploaded_file, entries) ==
    IF \E e \in entries : e.key = uploaded_file THEN entries
    ELSE entries \cup {[key |-> uploaded_file, value |-> load_data(uploaded_file, entries)]}

\* ------------------------------------------------------------- one run
\* The script's namespace and the page before the first statement runs.
Blank(file, m) ==
    [uploaded_excel_file    |-> file,
     memo                   |-> m,
     business_units         |-> {},
     selected_business_unit |-> "All",
     years                  |-> {},
     selected_year          |-> AllYears,
     selected_account_type  |-> "All",
     df                     |-> None,
     filtered_df            |-> None,
     kpis                   |-> None,
     bu_comparison_data     |-> << >>,
     years_available        |-> {},
     selected_years_expense |-> {},
     sparkline              |-> 0,
     error                  |-> "none",
     page                   |-> {}]

\* The widget values the session holds when a run starts.
Widgets ==
    [business_units         |-> business_units,
     selected_business_unit |-> selected_business_unit,
     years                  |-> years,
     selected_year          |-> selected_year,
     selected_account_type  |-> selected_account_type,
     years_available        |-> years_available,
     selected_years_expense |-> selected_years_expense]

\* The comparison list is carried over from the previous run.
bu_comparison_kept == bu_comparison_data

\* bu_comparison_data = []
bu_comparison_start == << >>

\* st.stop() is missing: after the prompt the script goes on and load_data
\* raises on the absent file.
no_file_page_no_stop(file, m) ==
    [Blank(file, m) EXCEPT !.page = {"info", "exception"},
                           !.error = "ValueError: read_excel"]

\* if uploaded_excel_file is None: st.info(...); st.stop()
no_file_page(file, m) == [Blank(file, m) EXCEPT !.page = {"info"}]

\* src/dashboard.py: upload guard, load, table view.
run_dashboard(file, m) ==
    IF file = None
    THEN no_file_page(file, m)
    ELSE [Blank(file, memo_after(file, m)) EXCEPT
              !.df = load_data(file, m), !.page = {"data"}]

\* Expense analysis, lines 463-491: the monthly expense frame has no Month
\* column when no listed expense account occurs in the selected years.
run_expenses(s, w) ==
    LET opts  == Range(unique(s.filtered_df, "Year"))
        sel   == multiselect(opts, w.years_available, w.selected_years_expense)
        filtered_expense_df == Rows(s.filtered_df, LAMBDA r : r["Year"] \in sel)
        available_expense_accounts ==
            {a \in expense_accounts :
                \E i \in 1..Len(filtered_expense_df.rows) :
                    filtered_expense_df.rows[i]["Account"] = a}
        s1 == [s EXCEPT !.years_available = opts, !.selected_years_expense = sel]
    IN  IF available_expense_accounts = {}
        THEN [s1 EXCEPT !.error = "KeyError: Month",
                        !.page = @ \cup {"exception"}]
        ELSE [s1 EXCEPT !.page = @ \cup {"expense charts"}]

\* Lines 182-455: KPI cards, charts and the business-unit comparison.
run_kpis(s, w) ==
    IF calculate_kpis_raises(s.filtered_df)
    THEN [s EXCEPT !.error = IF "Account" \notin s.filtered_df.columns
                             THEN "KeyError: Account" ELSE "KeyError: month",
                   !.page = @ \cup {"exception"}]
    ELSE LET s1 == [s EXCEPT !.kpis = calculate_kpis(s.filtered_df),
                             !.page = @ \cup {"metrics", "gauges",
                                              "revenue charts", "profit charts"}]
             s2 == [s1 EXCEPT !.bu_comparison_data =
                                 comparison_loop(bu_comparison_start, s.filtered_df)]
         IN  IF s2.bu_comparison_data = << >>
             THEN [s2 EXCEPT !.error = "ValueError: Business Unit",
                             !.page = @ \cup {"exception"}]
             ELSE run_expenses([s2 EXCEPT !.page = @ \cup {"comparison charts",
                                                          "comparison table"}], w)

\* src/ui.py, one run from the top: w is the widget state of the session.
run_ui(file, m, w) ==
    IF file = None
    THEN no_file_page(file, m)
    ELSE
    LET loaded == load_data(file, m)
        s1 == [Blank(file, memo_after(file, m)) EXCEPT !.df = loaded]
    IN  IF "business_unit" \notin loaded.columns
        THEN [s1 EXCEPT !.error = "KeyError: business_unit", !.page = {"exception"}]
        ELSE
        LET opts_bu == business_unit_options(loaded)
            s2 == [s1 EXCEPT
                     !.business_units = opts_bu,
                     !.selected_business_unit =
                         selectbox(opts_bu, "All", w.business_units,
                                   w.selected_business_unit)]
        IN  IF "Year" \notin loaded.columns
            THEN [s2 EXCEPT !.error = "KeyError: Year", !.page = {"exception"}]
            ELSE
            LET opts_yr == year_options(loaded)
                sel_yr  == selectbox(opts_yr, AllYears, w.years, w.selected_year)
                sel_ty  == selectbox(account_types, "All",
                                     IF w.years # {} THEN account_types ELSE {},
                                     w.selected_account_type)
                fs == filter_step(loaded, s2.selected_business_unit, sel_yr)
                s3 == [s2 EXCEPT !.years = opts_yr,
                                 !.selected_year = sel_yr,
                                 !.selected_account_type = sel_ty,
                                 !.df = fs.df,
                                 !.filtered_df = fs.filtered_df,
                                 !.page = {"raw data"}]
            IN  run_kpis(s3, w)

\* plot_metric(..., show_graph=True): the KPI cards carry a placeholder
\* series drawn with random.sample; spark is the sample drawn.
plot_metric(s, spark) ==
    IF "metrics" \in s.page THEN [s EXCEPT !.sparkline = spark] ELSE s

run(file, m, w) ==
    IF script = "ui" THEN run_ui(file, m, w) ELSE run_dashboard(file, m)

\* The state a run leaves.
Leaves(s) ==
    /\ uploaded_excel_file' = s.uploaded_excel_file
    /\ memo' = s.memo
    /\ business_units' = s.business_units
    /\ selected_business_unit' = s.selected_business_unit
    /\ years' = s.years
    /\ selected_year' = s.selected_year
    /\ selected_account_type' = s.selected_account_type
    /\ df' = s.df
    /\ filtered_df' = s.filtered_df
    /\ kpis' = s.kpis
    /\ bu_comparison_data' = s.bu_comparison_data
    /\ years_available' = s.years_available
    /\ selected_years_expense' = s.selected_years_expense
    /\ sparkline' = s.sparkline
    /\ error' = s.error
    /\ page' = s.page
    /\ UNCHANGED <<script, call, ret>>

\* A run ends with the cards drawn; the placeholder series is any sample.
Finish(s) ==
    \E done \in {plot_metric(s, spark) : spark \in 0..MaxSpark} : Leaves(done)

\* -------------------------------------------------------------- inputs
\* The two scenario tables, and the workbooks a session uploads.
WbSalesOnly ==
    Workbook(<<Line("A", 2023, "Sales", Amounts(100, 100, 0))>>)

WbSalesCogs ==
    Workbook(<<Line("A", 2023, "Sales", Amounts(100, 100, 0)),
               Line("A", 2023, "Cost of Goods Sold", Amounts(-50, 0, 0))>>)

WbTwoUnits ==
    Workbook(<<Line("A", 2023, "Sales", Amounts(100, 100, 0)),
               Line("A", 2023, "Payroll Expense", Amounts(-30, 0, -10)),
               Line("B", 2023, "Sales", Amounts(300, 0, 0)),
               Line("B", 2024, "Cost of Goods Sold", Amounts(-50, 0, 0)),
               Line("B", 2024, "Marketing Expense", Amounts(20, 0, 0))>>)

WbZeroSales ==
    Workbook(<<Line("B", 2024, "Sales", Amounts(100, 0, -100)),
               Line("B", 2024, "Payroll Expense", Amounts(-30, 0, -10)),
               Line("A", 2024, "Payroll Expense", Amounts(-30, 0, -10))>>)

ValidWorkbooks == {WbSalesCogs, WbTwoUnits, WbZeroSales}

BrokenWorkbooks ==
    {DropColumn(WbTwoUnits, c) : c \in {"business_unit", "Year", "Account", "Dec"}}

Workbooks == ValidWorkbooks \cup BrokenWorkbooks

\* Tables the KPI functions are applied to on their own.
KpiAccounts ==
    {"Sales", "Cost of Goods Sold", "Payroll Expense", "Marketing Expense"}

KpiAmounts ==
    {Amounts(100, 100, 0), Amounts(-50, 0, 0), Amounts(100, 0, -100)}

KpiLines == {Line("A", 2023, acc, a) : acc \in KpiAccounts, a \in KpiAmounts}

KpiTables ==
    {read_excel(Workbook(lines)) :
        lines \in UNION {[1..n -> KpiLines] : n \in 0..MaxRows}}

KpiAccountArgs == KpiAccounts \cup {"NonexistentAccount"}

\* Tables and selections the two masks are applied to on their own.
FilterUnits == {"A", "B"}

FilterYears == {2023, 2024}

FilterLines ==
    {Line(bu, yr, acc, Amounts(100, 0, 0)) :
        bu \in FilterUnits, yr \in FilterYears, acc \in {"Sales", "Payroll Expense"}}

FilterTables ==
    {read_excel(Workbook(lines)) :
        lines \in UNION {[1..n -> FilterLines] : n \in 0..MaxRows}}

\* ---------------------------------------------------------- interactions
\* Every interaction changes one widget value and re-runs the script.
Upload(wb) ==
    /\ wb # uploaded_excel_file
    /\ \/ \E e \in memo : e.key = wb
       \/ Cardinality(memo) < MaxCached
    /\ Finish(run(wb, memo, Widgets))

RemoveFile ==
    /\ uploaded_excel_file # None
    /\ Finish(run(None, memo, Widgets))

SelectBusinessUnit(b) ==
    /\ b \in business_units
    /\ b # selected_business_unit
    /\ Finish(run(uploaded_excel_file, memo, [Widgets EXCEPT !.selected_business_unit = b]))

SelectYear(y) ==
    /\ y \in years
    /\ y # selected_year
    /\ Finish(run(uploaded_excel_file, memo, [Widgets EXCEPT !.selected_year = y]))

SelectAccountType(t) ==
    /\ years # {}
    /\ t # selected_account_type
    /\ Finish(run(uploaded_excel_file, memo, [Widgets EXCEPT !.selected_account_type = t]))

SelectExpenseYears(ys) ==
    /\ years_available # {}
    /\ ys \subseteq years_available
    /\ ys # selected_years_expense
    /\ Finish(run(uploaded_excel_file, memo, [Widgets EXCEPT !.selected_years_expense = ys]))

\* The Rerun command: nothing changes but the script runs again.
Rerun ==
    Finish(run(uploaded_excel_file, memo, Widgets))

\* A session opens with the script's first run: no file has been uploaded.
Init ==
    /\ script \in {"ui", "dashboard"}
    /\ uploaded_excel_file = None
    /\ memo = {}
    /\ business_units = {}
    /\ selected_business_unit = "All"
    /\ years = {}
    /\ selected_year = AllYears
    /\ selected_account_type = "All"
    /\ df = None
    /\ filtered_df = None
    /\ kpis = None
    /\ bu_comparison_data = << >>
    /\ years_available = {}
    /\ selected_years_expense = {}
    /\ sparkline = 0
    /\ error = "none"
    /\ page = {"info"}
    /\ call = [fn |-> "none"]
    /\ ret = None

Next ==
    \/ \E wb \in Workbooks : Upload(wb)
    \/ RemoveFile
    \/ \E b \in business_units : SelectBusinessUnit(b)
    \/ \E y \in years : SelectYear(y)
    \/ \E t \in account_types : SelectAccountType(t)
    \/ \E ys \in SUBSET years_available : SelectExpenseYears(ys)
    \/ Rerun

Spec == Init /\ [][Next]_vars

\* ----------------------------------------------------------- KPI harness
\* The two KPI functions applied to a table on their own.
CallTotal(account_name) ==
    /\ call' = [fn |-> "calculate_total_for_account", table |-> call.table,
                account |-> account_name]
    /\ ret' = calculate_total_for_account(call.table, account_name)
    /\ UNCHANGED session_vars

CallKpis ==
    /\ call' = [fn |-> "calculate_kpis", table |-> call.table]
    /\ ret' = calculate_kpis(call.table)
    /\ UNCHANGED session_vars

InitKpi ==
    /\ script = "ui"
    /\ uploaded_excel_file = None
    /\ memo = {}
    /\ business_units = {}
    /\ selected_business_unit = "All"
    /\ years = {}
    /\ selected_year = AllYears
    /\ selected_account_type = "All"
    /\ df = None
    /\ filtered_df = None
    /\ kpis = None
    /\ bu_comparison_data = << >>
    /\ years_available = {}
    /\ selected_years_expense = {}
    /\ sparkline = 0
    /\ error = "none"
    /\ page = {"info"}
    /\ \E t \in KpiTables : call = [fn |-> "none", table |-> t]
    /\ ret = None

NextKpi ==
    \/ \E a \in KpiAccountArgs : CallTotal(a)
    \/ CallKpis

SpecKpi == InitKpi /\ [][NextKpi]_vars

\* -------------------------------------------------------- filter harness
\* The two masks of lines 46-49 applied to a table on their own, in the
\* script's order and in the opposite order.
FilterUnitThenYear(b, y) ==
    /\ call' = [fn |-> "unit_then_year", table |-> call.table,
                unit |-> b, year |-> y]
    /\ ret' = mask_year(mask_business_unit(call.table, b), y)
    /\ UNCHANGED session_vars

FilterYearThenUnit(b, y) ==
    /\ call' = [fn |-> "year_then_unit", table |-> call.table,
                unit |-> b, year |-> y]
    /\ ret' = mask_business_unit(mask_year(call.table, y), b)
    /\ UNCHANGED session_vars

InitFilter ==
    /\ script = "ui"
    /\ uploaded_excel_file = None
    /\ memo = {}
    /\ business_units = {}
    /\ selected_business_unit = "All"
    /\ years = {}
    /\ selected_year = AllYears
    /\ selected_account_type = "All"
    /\ df = None
    /\ filtered_df = None
    /\ kpis = None
    /\ bu_comparison_data = << >>
    /\ years_available = {}
    /\ selected_years_expense = {}
    /\ sparkline = 0
    /\ error = "none"
    /\ page = {"info"}
    /\ \E t \in FilterTables : call = [fn |-> "none", table |-> t]
    /\ ret = None

NextFilter ==
    \/ \E b \in FilterUnits, y \in FilterYears : FilterUnitThenYear(b, y)
    \/ \E b \in FilterUnits, y \in FilterYears : FilterYearThenUnit(b, y)

SpecFilter == InitFilter /\ [][NextFilter]_vars

\* ============================================================== claims
\* Sums written out over cells, independently of the code's frame operations.
MonthCells(t, Keep(_)) ==
    {<<i, m>> : i \in {j \in 1..Len(t.rows) : Keep(t.rows[j])}, m \in MonthSet}

RECURSIVE CellSum(_, _)
CellSum(t, cells) ==
    IF cells = {} THEN 0
    ELSE LET c == CHOOSE x \in cells : TRUE
         IN  t.rows[c[1]][c[2]] + CellSum(t, cells \ {c})

SignedTotal(t, Keep(_)) == CellSum(t, MonthCells(t, Keep))

IsKpiCall == call.fn = "calculate_kpis"
IsTotalCall == call.fn = "calculate_total_for_account"

\* C1: whenever the bundle calculate_kpis returns has total_sales = 0, its
\* gross_margin and net_margin are the integer literal 0 of the guarded
\* branch (no quotient was formed), whatever total_cogs and total_expenses are.
C1_ZeroSalesZeroMargins ==
    (IsKpiCall /\ ret.total_sales = 0)
        => /\ ret.gross_margin = PyInt(0)
           /\ ret.net_margin = PyInt(0)

\* C1 witness: Sales rows are present and sum to zero while costs and
\* expenses do not.
C1_Witness ==
    /\ IsKpiCall
    /\ ret.total_sales = 0
    /\ \E i \in 1..Len(call.table.rows) : call.table.rows[i]["Account"] = "Sales"
    /\ ret.total_cogs # 0
    /\ ret.total_expenses # 0
    /\ ret.net_margin = PyInt(0)

\* C2: in every bundle, gross_profit = total_sales - total_cogs and
\* net_profit = total_sales - total_cogs - total_expenses, over the bundle's
\* own fields.
C2_ProfitIdentities ==
    IsKpiCall
        => /\ ret.gross_profit = ret.total_sales - ret.total_cogs
           /\ ret.net_profit = ret.total_sales - ret.total_cogs - ret.total_expenses

\* C2 witness: a bundle in which all three totals differ from zero.
C2_Witness ==
    /\ IsKpiCall
    /\ ret.total_sales # 0 /\ ret.total_cogs # 0 /\ ret.total_expenses # 0
    /\ ret.net_profit = ret.total_sales - ret.total_cogs - ret.total_expenses
    /\ ret.net_profit # ret.gross_profit

\* C3: calculate_total_for_account returns the sum of the twelve month cells
\* of every row whose Account is the given label, each duplicate row counted,
\* and 0 when no row carries the label.
C3_TotalForAccount ==
    IsTotalCall
        => /\ ret = SignedTotal(call.table, LAMBDA r : r["Account"] = call.account)
           /\ (\A i \in 1..Len(call.table.rows) :
                   call.table.rows[i]["Account"] # call.account) => ret = 0

\* C3 witness: two identical rows match the label and both are counted.
C3_Witness ==
    /\ IsTotalCall
    /\ \E i, j \in 1..Len(call.table.rows) :
          /\ i # j
          /\ call.table.rows[i] = call.table.rows[j]
          /\ call.table.rows[i]["Account"] = call.account
          /\ ret = 2 * RowSum(call.table.rows[i], all_months)
    /\ ret # 0

\* C4: total_sales is the signed sum of the Sales rows, total_cogs the
\* absolute value of the signed sum of the Cost of Goods Sold rows,
\* total_expenses the absolute value of the signed sum of all other rows; the
\* Sales-only table of 200 has both margins 100, and with a Cost of Goods Sold
\* row of -50 added total_cogs = 50, gross_profit = 150, gross_margin = 75.
C4_Totals ==
    IsKpiCall
        => /\ ret.total_sales =
                 SignedTotal(call.table, LAMBDA r : r["Account"] = "Sales")
           /\ ret.total_cogs =
                 abs(SignedTotal(call.table,
                                 LAMBDA r : r["Account"] = "Cost of Goods Sold"))
           /\ ret.total_expenses =
                 abs(SignedTotal(call.table,
                                 LAMBDA r : /\ r["Account"] # "Sales"
                                            /\ r["Account"] # "Cost of Goods Sold"))
           /\ call.table = read_excel(WbSalesOnly)
                 => /\ ret.total_sales = 200
                    /\ PyEq(ret.gross_margin, PyInt(100))
                    /\ PyEq(ret.net_margin, PyInt(100))
           /\ call.table = read_excel(WbSalesCogs)
                 => /\ ret.total_cogs = 50
                    /\ ret.gross_profit = 150
                    /\ PyEq(ret.gross_margin, PyInt(75))

\* C4 witness: the scenario table with the Cost of Goods Sold row of -50.
C4_Witness ==
    /\ IsKpiCall
    /\ call.table = read_excel(WbSalesCogs)
    /\ ret.total_cogs = 50
    /\ PyEq(ret.gross_margin, PyInt(75))

\* The columns the script reads.
ExpectedColumns == Range(ExpectedHeader)

\* The KPI bundle and comparison rows worked out from the uploaded workbook
\* and the effective selections alone, with an empty memo and no history.
FromScratchOf(file, unit, year_opt) ==
    LET t == read_excel(file)
        f == apply_filters(t, unit, year_opt)
    IN  [kpis |-> calculate_kpis(f), comparison |-> comparison_loop(<< >>, f)]

FromScratch ==
    FromScratchOf(uploaded_excel_file, selected_business_unit, selected_year)

\* The rows an account-type selection admits.
AccountTypeAdmits(t, r) ==
    \/ t = "All"
    \/ t = "Sales" /\ r["Account"] = "Sales"
    \/ t = "Expenses" /\ r["Account"] \notin {"Sales", "Cost of Goods Sold"}

\* C5: the view the KPIs are computed from holds exactly the rows of the
\* loaded table that satisfy the business-unit, the year and the account-type
\* selection together, 'All' placing no constraint.
C5_ViewAppliesAllThreeFilters ==
    kpis # None =>
        filtered_df.rows =
            SelectSeq(df.rows,
                      LAMBDA r :
                          /\ selected_business_unit = "All"
                                \/ r["business_unit"] = selected_business_unit
                          /\ selected_year = AllYears
                                \/ r["Year"] = selected_year.year
                          /\ AccountTypeAdmits(selected_account_type, r))

C7_ComparisonPerUnit ==
    kpis # None =>
        LET present == {filtered_df.rows[i]["business_unit"] :
                            i \in 1..Len(filtered_df.rows)}
        IN  /\ Len(bu_comparison_data) = Cardinality(present)
            /\ {bu_comparison_data[i]["Business Unit"] :
                    i \in 1..Len(bu_comparison_data)} = present
            /\ \A i \in 1..Len(bu_comparison_data) :
                 LET row == bu_comparison_data[i]
                     k   == calculate_kpis(
                                apply_filters(df, row["Business Unit"], selected_year))
                 IN  /\ row["Revenue"] = k.total_sales
                     /\ row["Expenses"] = k.total_expenses
                     /\ row["Net Profit"] = k.net_profit
                     /\ row["Net Margin (%)"] = k.net_margin

\* C7 witness: a year is selected and two units with different revenue and
\* expenses are compared.
C7_Witness ==
    /\ kpis # None
    /\ selected_year # AllYears
    /\ Len(bu_comparison_data) = 2
    /\ bu_comparison_data[1]["Revenue"] # bu_comparison_data[2]["Revenue"]
    /\ bu_comparison_data[1]["Expenses"] # bu_comparison_data[2]["Expenses"]
    /\ bu_comparison_data[1]["Revenue"] # kpis.total_sales

\* C8: whatever the sequence of uploads, selections and runs, the loaded
\* table is the table read from the uploaded file, row for row, after
\* filtering and KPI computation, and every table kept in the memo is the
\* table read from its file.
C8_TableNeverModified ==
    /\ df # None => df = read_excel(uploaded_excel_file)
    /\ \A e \in memo : e.value = read_excel(e.key)

\* C8 witness: the filters removed rows and the KPIs were computed, with two
\* workbooks loaded so far in the session.
C8_Witness ==
    /\ kpis # None
    /\ Len(filtered_df.rows) < Len(df.rows)
    /\ Len(filtered_df.rows) > 0
    /\ Cardinality(memo) = MaxCached
    /\ df = read_excel(uploaded_excel_file)

\* C9: a run that ends in an exception binds nothing past the failing
\* statement, and the run that follows it starts from scratch: its table is
\* the one read from the file then uploaded, and its KPI bundle and
\* comparison rows are those worked out from that file and the effective
\* selections alone.
C9_FailureConfinedToItsRun ==
    [][/\ error \in {"KeyError: business_unit", "KeyError: Year"}
             => filtered_df = None /\ kpis = None /\ bu_comparison_data = << >>
       /\ error \in {"KeyError: Account", "KeyError: month"}
             => kpis = None /\ bu_comparison_data = << >>
       /\ error # "none"
             => /\ df' # None => df' = read_excel(uploaded_excel_file')
                /\ df' = None => uploaded_excel_file' = None
                /\ kpis' # None
                      => LET fresh == FromScratchOf(uploaded_excel_file',
                                                    selected_business_unit',
                                                    selected_year')
                         IN  /\ kpis' = fresh.kpis
                             /\ bu_comparison_data' = fresh.comparison
      ]_vars

\* C9 witness: a workbook with a missing column was loaded earlier in the
\* session (its run failed), and the current run over a complete workbook
\* finished without exception.
C9_Witness ==
    /\ \E e \in memo : ~(ExpectedColumns \subseteq e.value.columns)
    /\ uploaded_excel_file # None
    /\ ExpectedColumns \subseteq df.columns
    /\ error = "none"
    /\ kpis = FromScratch.kpis
    /\ "expense charts" \in page

\* C10: a run over the same file and the same business-unit and year
\* selections as the run before computes the same KPI bundle and the same
\* comparison rows, whatever sparkline was drawn; the bundle depends on the
\* file and selections only; and when the filtered table holds a single
\* unit, the second call of calculate_kpis (for the comparison) returns the
\* values of the first.
C10_Deterministic ==
    [][/\ (/\ uploaded_excel_file' = uploaded_excel_file
           /\ selected_business_unit' = selected_business_unit
           /\ selected_year' = selected_year
           /\ kpis # None)
             => /\ kpis' = kpis
                /\ bu_comparison_data' = bu_comparison_data
       /\ kpis' # None
             => kpis' = FromScratchOf(uploaded_excel_file', selected_business_unit',
                                      selected_year').kpis
       /\ Len(bu_comparison_data') = 1
             => /\ bu_comparison_data'[1]["Revenue"] = kpis'.total_sales
                /\ bu_comparison_data'[1]["Expenses"] = kpis'.total_expenses
                /\ bu_comparison_data'[1]["Net Profit"] = kpis'.net_profit
                /\ bu_comparison_data'[1]["Net Margin (%)"] = kpis'.net_margin
      ]_vars

\* C10 witness: one unit in the filtered table, so calculate_kpis ran twice
\* on the same rows, with a sparkline other than the first sample.
C10_Witness ==
    /\ kpis # None
    /\ Len(bu_comparison_data) = 1
    /\ bu_comparison_data[1]["Revenue"] = kpis.total_sales
    /\ kpis.total_sales # 0
    /\ kpis.total_expenses # 0
    /\ sparkline # 0

IsFilterCall == call.fn \in {"unit_then_year", "year_then_unit"}

\* The rows of t, in t's order, whose business_unit is b and whose Year is y.
RowsOfUnitAndYear(t, b, y) ==
    [i \in 1..Cardinality({j \in 1..Len(t.rows) :
                              /\ t.rows[j]["business_unit"] = b
                              /\ t.rows[j]["Year"] = y}) |->
        t.rows[CHOOSE k \in 1..Len(t.rows) :
                  /\ t.rows[k]["business_unit"] = b
                  /\ t.rows[k]["Year"] = y
                  /\ Cardinality({j \in 1..k :
                                    /\ t.rows[j]["business_unit"] = b
                                    /\ t.rows[j]["Year"] = y}) = i]]

\* C11: for any table, business unit b and year y, masking by business unit
\* b and then by year y gives the same rows as masking by year y and then by
\* business unit b, and both are exactly the rows of the table with
\* business_unit = b and Year = y (columns untouched).
C11_FilteringCommutes ==
    IsFilterCall =>
        LET t == call.table
            unit_then_year == mask_year(mask_business_unit(t, call.unit), call.year)
            year_then_unit == mask_business_unit(mask_year(t, call.year), call.unit)
        IN  /\ ret \in {unit_then_year, year_then_unit}
            /\ unit_then_year = year_then_unit
            /\ ret.rows = RowsOfUnitAndYear(t, call.unit, call.year)
            /\ ret.columns = t.columns

\* C11 witness: the opposite order was applied to a table in which each mask
\* alone keeps more rows than both together, and both together keep one.
C11_Witness ==
    /\ call.fn = "year_then_unit"
    /\ Len(ret.rows) = 1
    /\ Len(mask_year(call.table, call.year).rows) > 1
    /\ Len(mask_business_unit(call.table, call.unit).rows) > 1
    /\ Len(call.table.rows) > 2

====
